---- MODULE Spec2Model ----
(***************************************************************************)
(* State-machine model of the tone generator demo (src/demo/tonegen.cpp):  *)
(* the ToneGen sample sources, the SimplePlayback driver and the RtAudio   *)
(* stream it owns.  Samples are fixed-point integers in units of 1/1000.   *)
(***************************************************************************)
EXTENDS Integers, Sequences, FiniteSets, TLC

(* ------------------------------ bounds --------------------------------- *)
\* Largest frame count one callback invocation is asked for.
MaxFrames == 2
\* Largest number of samples drawn from one generator before callbacks stop.
MaxPlayed == 3

(* ----------------------- constants of the program ---------------------- *)
\* fs_(512): the period size the constructor requests.
DefaultPeriod == 512
\* unsigned int sampleCount_ is 32 bits wide, kept as two 16-bit halves.
HalfRange == 65536
\* Default amplitudes, in 1/1000: 1.0 for Sine and Square, .25 for WhiteNoise.
UnitAmplitude == 1000
NoiseAmplitude == 250
\* sample_(-1.0) in the ToneGen constructor.
InitialSample == -1000

\* Values the host passes to init.
SampleRates == {44100, 48000}
ChannelCounts == {1, 2}
ToneGenArgs == {0, 1, 2, 99}
\* Period sizes the backend may negotiate in openStream (written back to fs_).
PeriodSizes == {256, 512}
\* Draws of uniform_real_distribution<float>(-a, a) for a = .25, in 1/1000.
NoiseDraws == {-250, 249}
\* Values sin may take at an index beyond SinTable, in 1/1000: the model does
\* not compute them, every such value is a choice from this set.
FarSines == {-707, 383}
\* What a read through a dangling ToneGen pointer may yield.
GarbageSamples == {-7777, 7777}

VARIABLES
  audio_,             \* RtAudio audio_: [state, nUserChannels, nOpen], the stream's
                      \* state (STREAM_CLOSED / _STOPPED / _RUNNING), the channel
                      \* count it was opened with, and the device streams held open
  streamParameters_,  \* [deviceId, nChannels, firstChannel]
  playing_,           \* bool playing_
  sr_,                \* unsigned int sr_
  fs_,                \* unsigned int fs_
  tg_,                \* ToneGen* tg_: "NULL" or "PTR"
  gen,                \* the ToneGen object tg_ points to (heap)
  nLive,              \* number of ToneGen objects allocated and not deleted
  played,             \* samples written by callbacks from the current generator
  ub,                 \* TRUE once a callback has run on a deleted ToneGen
  pc,                 \* lifetime of the driver: "live", "dtor" (body done), "dead"
  last,               \* the last operation: its arguments, result and effects
  host                \* the host thread: where it is in main or inside an
                      \* operation, and the value main returns

vars == <<audio_, streamParameters_, playing_, sr_, fs_, tg_, gen, nLive,
          played, ub, pc, last, host>>

(* --------------------------- 32-bit counter ---------------------------- *)
Zero32 == [hi |-> 0, lo |-> 0]

\* A ++sampleCount_ on 16 bits only: the carry into the upper half is lost.
Inc32_NoCarry(c) == [hi |-> c.hi, lo |-> (c.lo + 1) % HalfRange]

\* ++sampleCount_ on an unsigned int.
Inc32(c) ==
  IF c.lo + 1 < HalfRange THEN [hi |-> c.hi, lo |-> c.lo + 1]
  ELSE [hi |-> (c.hi + 1) % HalfRange, lo |-> 0]

\* The counter as a number (for the values the bounded model reaches).
Val32(c) == c.hi * HalfRange + c.lo

(* --------------------------- tone generators --------------------------- *)
\* round(1000 * sin(i/16)) for i = 0 .. 23.
SinTable ==
  <<0, 62, 125, 186, 247, 307, 366, 424, 479, 533, 585, 635,
    682, 726, 768, 806, 841, 874, 902, 927, 949, 967, 981, 991>>

\* ::sin(static_cast<float>(i)/16), in 1/1000.
SinMilli(i) == SinTable[i + 1]

\* ::sin(static_cast<float>(sampleCount_)/16) for a 32-bit counter: the table
\* where it reaches, else far, the value chosen for this call.
Sin32(c, far) ==
  IF c.hi = 0 /\ c.lo < Len(SinTable) THEN SinMilli(c.lo) ELSE far

\* SquareGen::sgn
sgn(val) == (IF 0 < val THEN 1 ELSE 0) - (IF val < 0 THEN 1 ELSE 0)

\* No object: the heap cell before the first new and after a delete.
NoGen == [live |-> FALSE, kind |-> "none", sample_ |-> 0, amplitude_ |-> 0,
          sampleCount_ |-> Zero32]

\* ToneGen(a): sample_(-1.0), amplitude_(a), sampleCount_(0).
ToneGen(kind, a) ==
  [live |-> TRUE, kind |-> kind, sample_ |-> InitialSample, amplitude_ |-> a,
   sampleCount_ |-> Zero32]

SineGen == ToneGen("Sine", UnitAmplitude)
SquareGen == ToneGen("Square", UnitAmplitude)
WhiteNoiseGen == ToneGen("WhiteNoise", NoiseAmplitude)

\* A SineGen::nextSample that forgets ++sampleCount_.
SineNextSample_NoIncrement(g, far) ==
  LET s == (g.amplitude_ * Sin32(g.sampleCount_, far)) \div UnitAmplitude
  IN [g |-> [g EXCEPT !.sample_ = s], v |-> s]

\* SineGen::nextSample: the object after the call and the value returned.
SineNextSample(g, far) ==
  LET s == (g.amplitude_ * Sin32(g.sampleCount_, far)) \div UnitAmplitude
  IN [g |-> [g EXCEPT !.sample_ = s, !.sampleCount_ = Inc32(g.sampleCount_)],
      v |-> s]

\* SquareGen::nextSample
SquareNextSample(g, far) ==
  LET s == g.amplitude_ * sgn(Sin32(g.sampleCount_, far))
  IN [g |-> [g EXCEPT !.sample_ = s, !.sampleCount_ = Inc32(g.sampleCount_)],
      v |-> s]

\* WhiteNoiseGen::nextSample: returns the draw, touches neither sample_ nor
\* sampleCount_.
WhiteNoiseNextSample(g, draw) == [g |-> g, v |-> draw]

\* tg_->nextSample(): virtual dispatch on the object's dynamic type; draw is
\* what the random engine yields, garbage what a deleted object yields, far
\* the sine at an index beyond the table.
nextSample(g, draw, garbage, far) ==
  IF ~g.live THEN [g |-> g, v |-> garbage]
  ELSE IF g.kind = "Sine" THEN SineNextSample(g, far)
  ELSE IF g.kind = "Square" THEN SquareNextSample(g, far)
  ELSE WhiteNoiseNextSample(g, draw)

(* ------------------------- RtAudio primitives -------------------------- *)
\* Each yields the RtAudio object after the call and whether RtAudioError was
\* thrown.

\* openStream: INVALID_USE when a stream is already open or no channel is
\* asked for, SYSTEM_ERROR when the device cannot be opened.
openStream(a, nChannels, devOk) ==
  IF a.state # "STREAM_CLOSED" THEN [a |-> a, throws |-> TRUE]
  ELSE IF nChannels < 1 \/ ~devOk THEN [a |-> a, throws |-> TRUE]
  ELSE [a |-> [state |-> "STREAM_STOPPED", nUserChannels |-> nChannels,
               nOpen |-> a.nOpen + 1],
        throws |-> FALSE]

\* startStream: INVALID_USE on a closed stream, a warning on a running one.
startStream(a, backendOk) ==
  IF a.state = "STREAM_CLOSED" THEN [a |-> a, throws |-> TRUE]
  ELSE IF a.state = "STREAM_RUNNING" THEN [a |-> a, throws |-> FALSE]
  ELSE IF backendOk
    THEN [a |-> [a EXCEPT !.state = "STREAM_RUNNING"], throws |-> FALSE]
  ELSE [a |-> a, throws |-> TRUE]

\* stopStream: INVALID_USE on a closed stream, a warning on a stopped one; a
\* backend failure throws with the stream either still running or already
\* marked stopped, depending on the audio API.
StopOutcomes == {"ok", "fail_running", "fail_stopped"}

stopStream(a, outcome) ==
  IF a.state = "STREAM_CLOSED" THEN [a |-> a, throws |-> TRUE]
  ELSE IF a.state = "STREAM_STOPPED" THEN [a |-> a, throws |-> FALSE]
  ELSE IF outcome = "ok"
    THEN [a |-> [a EXCEPT !.state = "STREAM_STOPPED"], throws |-> FALSE]
  ELSE IF outcome = "fail_running" THEN [a |-> a, throws |-> TRUE]
  ELSE [a |-> [a EXCEPT !.state = "STREAM_STOPPED"], throws |-> TRUE]

isStreamOpen(a) == a.state # "STREAM_CLOSED"

\* closeStream: a warning on a closed stream; stops a running stream first.
closeStream(a) ==
  IF a.state = "STREAM_CLOSED" THEN a
  ELSE [state |-> "STREAM_CLOSED", nUserChannels |-> 0, nOpen |-> a.nOpen - 1]

\* RtAudio(): no stream.
RtAudio == [state |-> "STREAM_CLOSED", nUserChannels |-> 0, nOpen |-> 0]

getDefaultOutputDevice == 0

(* ------------------------------ history -------------------------------- *)
\* The record kept of the last operation.
Op(op, ret, prims, arg, dev, calls, written) ==
  [op |-> op, ret |-> ret, prims |-> prims, arg |-> arg, dev |-> dev,
   calls |-> calls, written |-> written]

\* The host thread's record: pc is its position, exit the value main returns,
\* parse / initOk / startOk / stopCalled what main has seen so far, arg the
\* selector of an init in progress.
Host(at, exit, parse, initOk, startOk, stopCalled, arg) ==
  [pc |-> at, exit |-> exit, parse |-> parse, initOk |-> initOk,
   startOk |-> startOk, stopCalled |-> stopCalled, arg |-> arg]

\* A host that calls the driver's operations in any order.
AnyHost == Host("any", 0, "none", FALSE, FALSE, FALSE, 0)

(* ---------------------------- SimplePlayback --------------------------- *)
\* SimplePlayback::SimplePlayback()
SimplePlayback ==
  /\ audio_ = RtAudio
  /\ streamParameters_ = [deviceId |-> 0, nChannels |-> 0, firstChannel |-> 0]
  /\ playing_ = FALSE
  /\ sr_ = 0
  /\ fs_ = DefaultPeriod
  /\ tg_ = "NULL"
  /\ gen = NoGen
  /\ nLive = 0
  /\ played = << >>
  /\ ub = FALSE
  /\ pc = "live"
  /\ last = Op("ctor", "none", {}, 0, TRUE, 0, {})

Init == SimplePlayback /\ host = AnyHost

\* The switch of init with its break statements missing: every case falls
\* through to default.
newToneGen_NoBreak(toneGen) == SineGen

\* The switch of init: the generator a selector constructs.
newToneGen(toneGen) ==
  IF toneGen = 1 THEN SquareGen
  ELSE IF toneGen = 2 THEN WhiteNoiseGen
  ELSE SineGen

\* An init that deletes the old generator before it opens the stream.
init_DeleteFirst(sr, nch, toneGen, devOk, period) ==
  LET o == openStream(audio_, nch, devOk) IN
  /\ pc = "live"
  /\ sr_' = sr
  /\ streamParameters_' =
       [deviceId |-> getDefaultOutputDevice, nChannels |-> nch, firstChannel |-> 0]
  /\ audio_' = o.a
  /\ IF o.throws
       THEN /\ gen' = (IF tg_ # "NULL" THEN NoGen ELSE gen)
            /\ nLive' = (IF tg_ # "NULL" THEN nLive - 1 ELSE nLive)
            /\ UNCHANGED <<fs_, tg_, played>>
            /\ last' = Op("init", "false",
                          {"openStream"}
                            \cup (IF tg_ # "NULL" THEN {"delete"} ELSE {}),
                          toneGen, devOk, 0, {})
       ELSE /\ fs_' = period
            /\ tg_' = "PTR"
            /\ gen' = newToneGen(toneGen)
            /\ nLive' = (IF tg_ # "NULL" THEN nLive - 1 ELSE nLive) + 1
            /\ played' = << >>
            /\ last' = Op("init", "true",
                          {"openStream", "new"}
                            \cup (IF tg_ # "NULL" THEN {"delete"} ELSE {}),
                          toneGen, devOk, 0, {})
  /\ UNCHANGED <<playing_, ub, pc>>

\* An init that constructs the new generator without deleting the old one.
init_NoDelete(sr, nch, toneGen, devOk, period) ==
  LET o == openStream(audio_, nch, devOk) IN
  /\ pc = "live"
  /\ sr_' = sr
  /\ streamParameters_' =
       [deviceId |-> getDefaultOutputDevice, nChannels |-> nch, firstChannel |-> 0]
  /\ audio_' = o.a
  /\ IF o.throws
       THEN /\ UNCHANGED <<fs_, tg_, gen, nLive, played>>
            /\ last' = Op("init", "false", {"openStream"}, toneGen, devOk, 0, {})
       ELSE /\ fs_' = period
            /\ tg_' = "PTR"
            /\ gen' = newToneGen(toneGen)
            /\ nLive' = nLive + 1
            /\ played' = << >>
            /\ last' = Op("init", "true", {"openStream", "new"}, toneGen, devOk,
                          0, {})
  /\ UNCHANGED <<playing_, ub, pc>>

\* bool SimplePlayback::init(sr, nch, toneGen); devOk and period are the
\* backend's answer to openStream.
init(sr, nch, toneGen, devOk, period) ==
  LET o == openStream(audio_, nch, devOk) IN
  /\ pc = "live"
  /\ sr_' = sr
  /\ streamParameters_' =
       [deviceId |-> getDefaultOutputDevice, nChannels |-> nch, firstChannel |-> 0]
  /\ audio_' = o.a
  /\ IF o.throws
       THEN /\ UNCHANGED <<fs_, tg_, gen, nLive, played>>
            /\ last' = Op("init", "false", {"openStream"}, toneGen, devOk, 0, {})
       ELSE /\ fs_' = period
            /\ tg_' = "PTR"
            /\ gen' = newToneGen(toneGen)
            /\ nLive' = (IF tg_ # "NULL" THEN nLive - 1 ELSE nLive) + 1
            /\ played' = << >>
            /\ last' = Op("init", "true",
                          {"openStream", "new"}
                            \cup (IF tg_ # "NULL" THEN {"delete"} ELSE {}),
                          toneGen, devOk, 0, {})
  /\ UNCHANGED <<playing_, ub, pc>>

\* A start() without the playing_ test.
start_NoPlayingTest(backendOk) ==
  LET s == startStream(audio_, backendOk) IN
  /\ pc = "live"
  /\ audio_' = s.a
  /\ playing_' = (IF s.throws THEN playing_ ELSE TRUE)
  /\ last' = Op("start", IF s.throws THEN "false" ELSE "true",
                {"startStream"}, 0, backendOk, 0, {})
  /\ UNCHANGED <<streamParameters_, sr_, fs_, tg_, gen, nLive, played, ub, pc>>

\* A start() that sets playing_ before it calls startStream.
start_FlagBeforeCall(backendOk) ==
  LET s == startStream(audio_, backendOk) IN
  /\ pc = "live"
  /\ IF playing_
       THEN /\ UNCHANGED <<audio_, playing_>>
            /\ last' = Op("start", "false", {}, 0, backendOk, 0, {})
       ELSE /\ audio_' = s.a
            /\ playing_' = TRUE
            /\ last' = Op("start", IF s.throws THEN "false" ELSE "true",
                          {"startStream"}, 0, backendOk, 0, {})
  /\ UNCHANGED <<streamParameters_, sr_, fs_, tg_, gen, nLive, played, ub, pc>>

\* bool SimplePlayback::start()
start(backendOk) ==
  LET s == startStream(audio_, backendOk) IN
  /\ pc = "live"
  /\ IF playing_
       THEN /\ UNCHANGED <<audio_, playing_>>
            /\ last' = Op("start", "false", {}, 0, backendOk, 0, {})
       ELSE /\ audio_' = s.a
            /\ playing_' = (IF s.throws THEN playing_ ELSE TRUE)
            /\ last' = Op("start", IF s.throws THEN "false" ELSE "true",
                          {"startStream"}, 0, backendOk, 0, {})
  /\ UNCHANGED <<streamParameters_, sr_, fs_, tg_, gen, nLive, played, ub, pc>>

\* A stop() without the playing_ test.
stopBody_NoPlayingTest(a, playing, outcome) ==
  LET s == stopStream(a, outcome) IN
  IF s.throws
    THEN [a |-> s.a, playing |-> playing, ret |-> "false",
          prims |-> {"stopStream"}]
  ELSE IF isStreamOpen(s.a)
    THEN [a |-> closeStream(s.a), playing |-> FALSE, ret |-> "true",
          prims |-> {"stopStream", "isStreamOpen", "closeStream"}]
  ELSE [a |-> s.a, playing |-> FALSE, ret |-> "true",
        prims |-> {"stopStream", "isStreamOpen"}]

\* A stop() that stops the stream and never closes it.
stopBody_NoClose(a, playing, outcome) ==
  LET s == stopStream(a, outcome) IN
  IF ~playing
    THEN [a |-> a, playing |-> playing, ret |-> "false", prims |-> {}]
  ELSE IF s.throws
    THEN [a |-> s.a, playing |-> playing, ret |-> "false",
          prims |-> {"stopStream"}]
  ELSE [a |-> s.a, playing |-> FALSE, ret |-> "true", prims |-> {"stopStream"}]

\* A stop() that clears playing_ before it calls stopStream.
stopBody_FlagBeforeCall(a, playing, outcome) ==
  LET s == stopStream(a, outcome) IN
  IF ~playing
    THEN [a |-> a, playing |-> playing, ret |-> "false", prims |-> {}]
  ELSE IF s.throws
    THEN [a |-> s.a, playing |-> FALSE, ret |-> "false",
          prims |-> {"stopStream"}]
  ELSE IF isStreamOpen(s.a)
    THEN [a |-> closeStream(s.a), playing |-> FALSE, ret |-> "true",
          prims |-> {"stopStream", "isStreamOpen", "closeStream"}]
  ELSE [a |-> s.a, playing |-> FALSE, ret |-> "true",
        prims |-> {"stopStream", "isStreamOpen"}]

\* The body of stop(): the stream state, the flag, the value returned and the
\* backend primitives called.
stopBody(a, playing, outcome) ==
  LET s == stopStream(a, outcome) IN
  IF ~playing
    THEN [a |-> a, playing |-> playing, ret |-> "false", prims |-> {}]
  ELSE IF s.throws
    THEN [a |-> s.a, playing |-> playing, ret |-> "false",
          prims |-> {"stopStream"}]
  ELSE IF isStreamOpen(s.a)
    THEN [a |-> closeStream(s.a), playing |-> FALSE, ret |-> "true",
          prims |-> {"stopStream", "isStreamOpen", "closeStream"}]
  ELSE [a |-> s.a, playing |-> FALSE, ret |-> "true",
        prims |-> {"stopStream", "isStreamOpen"}]

\* bool SimplePlayback::stop()
stop(outcome) ==
  LET r == stopBody(audio_, playing_, outcome) IN
  /\ pc = "live"
  /\ audio_' = r.a
  /\ playing_' = r.playing
  /\ last' = Op("stop", r.ret, r.prims, 0, outcome = "ok", 0, {})
  /\ UNCHANGED <<streamParameters_, sr_, fs_, tg_, gen, nLive, played, ub, pc>>

\* A callback loop that steps buf by the stream's channel count.
RECURSIVE callbackLoop_ChannelStride(_, _, _, _, _, _, _, _, _)
callbackLoop_ChannelStride(i, nFrames, buf, g, written, out, draws, garbage, far) ==
  IF i < nFrames
    THEN LET r == nextSample(g, draws[i + 1], garbage, far[i + 1])
         IN callbackLoop_ChannelStride(i + 1, nFrames,
                                       buf + audio_.nUserChannels, r.g,
                                       written \cup {buf}, Append(out, r.v),
                                       draws, garbage, far)
    ELSE [g |-> g, written |-> written, out |-> out, calls |-> i]

\* The loop of callback: i counts the iterations, buf is the write position
\* (in float slots from outBuf), written the slots stored to, out the values.
RECURSIVE callbackLoop(_, _, _, _, _, _, _, _, _)
callbackLoop(i, nFrames, buf, g, written, out, draws, garbage, far) ==
  IF i < nFrames
    THEN LET r == nextSample(g, draws[i + 1], garbage, far[i + 1])
         IN callbackLoop(i + 1, nFrames, buf + 1, r.g, written \cup {buf},
                         Append(out, r.v), draws, garbage, far)
    ELSE [g |-> g, written |-> written, out |-> out, calls |-> i]

\* int SimplePlayback::callback(outBuf, inBuf, nFrames, ...), invoked by the
\* audio thread while the stream runs.
callback(nFrames, draws, garbage, far) ==
  LET r == callbackLoop(0, nFrames, 0, gen, {}, << >>, draws, garbage, far) IN
  /\ audio_.state = "STREAM_RUNNING"
  /\ Len(played) + nFrames <= MaxPlayed
  /\ gen' = r.g
  /\ played' = played \o r.out
  /\ ub' = (ub \/ (nFrames > 0 /\ ~gen.live))
  /\ last' = Op("callback", "0", {}, nFrames, TRUE, r.calls, r.written)
  /\ UNCHANGED <<audio_, streamParameters_, playing_, sr_, fs_, tg_, nLive, pc>>

\* SimplePlayback::~SimplePlayback(), the body: stop if playing, delete tg_.
\* The member audio_ is destroyed after the body.
Destructor(outcome) ==
  LET r == stopBody(audio_, playing_, outcome) IN
  /\ pc = "live"
  /\ audio_' = (IF playing_ THEN r.a ELSE audio_)
  /\ playing_' = (IF playing_ THEN r.playing ELSE playing_)
  /\ gen' = (IF tg_ # "NULL" THEN NoGen ELSE gen)
  /\ nLive' = (IF tg_ # "NULL" THEN nLive - 1 ELSE nLive)
  /\ pc' = "dtor"
  /\ last' = Op("dtor", IF playing_ THEN r.ret ELSE "none",
                (IF playing_ THEN r.prims ELSE {})
                  \cup (IF tg_ # "NULL" THEN {"delete"} ELSE {}),
                0, outcome = "ok", 0, {})
  /\ UNCHANGED <<streamParameters_, sr_, fs_, tg_, played, ub>>

\* RtAudio::~RtAudio for the member audio_: closes the stream if it is open.
RtAudioDestructor ==
  /\ pc = "dtor"
  /\ audio_' = (IF isStreamOpen(audio_) THEN closeStream(audio_) ELSE audio_)
  /\ pc' = "dead"
  /\ last' = Op("dtor_audio", "none", {}, 0, TRUE, 0, {})
  /\ UNCHANGED <<streamParameters_, playing_, sr_, fs_, tg_, gen, nLive,
                 played, ub>>

\* The audio thread: one invocation of the callback.
AudioThread ==
  \E n \in 0 .. MaxFrames, garbage \in GarbageSamples :
    \E draws \in [1 .. n -> NoiseDraws], far \in [1 .. n -> FarSines] :
      callback(n, draws, garbage, far)

Next ==
  \/ \E sr \in SampleRates, nch \in ChannelCounts, t \in ToneGenArgs,
        devOk \in BOOLEAN, period \in PeriodSizes :
       init(sr, nch, t, devOk, period) /\ UNCHANGED host
  \/ \E ok \in BOOLEAN : start(ok) /\ UNCHANGED host
  \/ \E outcome \in StopOutcomes : stop(outcome) /\ UNCHANGED host
  \/ AudioThread /\ UNCHANGED host
  \/ \E outcome \in StopOutcomes : Destructor(outcome) /\ UNCHANGED host
  \/ RtAudioDestructor /\ UNCHANGED host

Spec == Init /\ [][Next]_vars

\* Everything a host operation may touch.
driver == <<audio_, streamParameters_, playing_, sr_, fs_, tg_, gen, nLive,
            played, ub, pc>>

(* -------------------------------- main --------------------------------- *)
\* cmd.parse(argc, argv): the arguments parse, or TCLAP reports the error and
\* exits the process itself with status 1, or an ArgException reaches main's
\* catch, which returns -1.
ParseOutcomes == {"ok", "tclap_exit", "throws"}

\* main with a failed init returning 0.
mainInit_ReturnsZero ==
  /\ host.pc = "init"
  /\ \E sr \in SampleRates, nch \in ChannelCounts, t \in ToneGenArgs,
        devOk \in BOOLEAN, period \in PeriodSizes :
       init(sr, nch, t, devOk, period)
  /\ host' = IF last'.ret = "true"
               THEN [host EXCEPT !.pc = "start", !.initOk = TRUE]
               ELSE [host EXCEPT !.pc = "unwind", !.exit = 0]

mainParse(outcome) ==
  /\ host.pc = "parse"
  /\ host' = IF outcome = "ok" THEN [host EXCEPT !.pc = "init", !.parse = "ok"]
             ELSE IF outcome = "tclap_exit"
               THEN [host EXCEPT !.pc = "exited", !.parse = outcome, !.exit = 1]
             ELSE [host EXCEPT !.pc = "exited", !.parse = outcome, !.exit = -1]
  /\ UNCHANGED driver
  /\ UNCHANGED last

\* SimplePlayback pb; if (!pb.init(...)) return -1;
mainInit ==
  /\ host.pc = "init"
  /\ \E sr \in SampleRates, nch \in ChannelCounts, t \in ToneGenArgs,
        devOk \in BOOLEAN, period \in PeriodSizes :
       init(sr, nch, t, devOk, period)
  /\ host' = IF last'.ret = "true"
               THEN [host EXCEPT !.pc = "start", !.initOk = TRUE]
               ELSE [host EXCEPT !.pc = "unwind", !.exit = -1]

\* if (pb.start()) { ... }: a failed start skips to the end of the try block.
mainStart ==
  /\ host.pc = "start"
  /\ \E ok \in BOOLEAN : start(ok)
  /\ host' = IF last'.ret = "true"
               THEN [host EXCEPT !.pc = "wait", !.startOk = TRUE]
               ELSE [host EXCEPT !.pc = "unwind", !.exit = 0]

\* std::cin.get(input): the user's signal is read.
mainWait ==
  /\ host.pc = "wait"
  /\ host' = [host EXCEPT !.pc = "stop"]
  /\ UNCHANGED driver
  /\ UNCHANGED last

\* pb.stop(); its result is not looked at; then return 0.
mainStop ==
  /\ host.pc = "stop"
  /\ \E outcome \in StopOutcomes : stop(outcome)
  /\ host' = [host EXCEPT !.pc = "unwind", !.stopCalled = TRUE, !.exit = 0]

\* Leaving the try block destroys pb: the destructor's body ...
mainUnwind ==
  /\ host.pc = "unwind"
  /\ \E outcome \in StopOutcomes : Destructor(outcome)
  /\ UNCHANGED host

\* ... then its member audio_, and main returns.
mainReturn ==
  /\ host.pc = "unwind"
  /\ RtAudioDestructor
  /\ host' = [host EXCEPT !.pc = "exited"]

InitMain ==
  /\ SimplePlayback
  /\ host = Host("parse", 0, "none", FALSE, FALSE, FALSE, 0)

NextMain ==
  \/ \E outcome \in ParseOutcomes : mainParse(outcome)
  \/ mainInit
  \/ mainStart
  \/ mainWait
  \/ mainStop
  \/ mainUnwind
  \/ mainReturn
  \/ AudioThread /\ UNCHANGED host

SpecMain == InitMain /\ [][NextMain]_vars

(* ------------------- host operations, statement by statement ----------- *)
\* The host thread's operations cut at the points where the audio thread can
\* run in between: host.pc is "idle" between operations and names the next
\* statement inside one.

\* An init that deletes the old generator before it opens the stream.
initOpen_DeleteFirst(sr, nch, toneGen, devOk, period) ==
  LET o == openStream(audio_, nch, devOk) IN
  /\ pc = "live" /\ host.pc = "idle"
  /\ sr_' = sr
  /\ streamParameters_' =
       [deviceId |-> getDefaultOutputDevice, nChannels |-> nch, firstChannel |-> 0]
  /\ audio_' = o.a
  /\ gen' = (IF tg_ # "NULL" THEN NoGen ELSE gen)
  /\ nLive' = (IF tg_ # "NULL" THEN nLive - 1 ELSE nLive)
  /\ IF o.throws
       THEN /\ UNCHANGED <<fs_, host>>
            /\ last' = Op("init", "false", {"openStream"}, toneGen, devOk, 0, {})
       ELSE /\ fs_' = period
            /\ host' = [host EXCEPT !.pc = "init_new", !.arg = toneGen]
            /\ last' = Op("init", "pending", {"openStream"}, toneGen, devOk, 0, {})
  /\ UNCHANGED <<playing_, tg_, played, ub, pc>>

\* init, up to the end of its try block: the members are assigned and the
\* stream is opened; a throw returns false.
initOpen(sr, nch, toneGen, devOk, period) ==
  LET o == openStream(audio_, nch, devOk) IN
  /\ pc = "live" /\ host.pc = "idle"
  /\ sr_' = sr
  /\ streamParameters_' =
       [deviceId |-> getDefaultOutputDevice, nChannels |-> nch, firstChannel |-> 0]
  /\ audio_' = o.a
  /\ IF o.throws
       THEN /\ UNCHANGED <<fs_, host>>
            /\ last' = Op("init", "false", {"openStream"}, toneGen, devOk, 0, {})
       ELSE /\ fs_' = period
            /\ host' = [host EXCEPT !.pc = "init_delete", !.arg = toneGen]
            /\ last' = Op("init", "pending", {"openStream"}, toneGen, devOk, 0, {})
  /\ UNCHANGED <<playing_, tg_, gen, nLive, played, ub, pc>>

\* init: if (tg_) delete tg_; the pointer is left dangling.
initDelete ==
  /\ pc = "live" /\ host.pc = "init_delete"
  /\ gen' = (IF tg_ # "NULL" THEN NoGen ELSE gen)
  /\ nLive' = (IF tg_ # "NULL" THEN nLive - 1 ELSE nLive)
  /\ last' = [last EXCEPT
                !.prims = @ \cup (IF tg_ # "NULL" THEN {"delete"} ELSE {})]
  /\ host' = [host EXCEPT !.pc = "init_new"]
  /\ UNCHANGED <<audio_, streamParameters_, playing_, sr_, fs_, tg_, played,
                 ub, pc>>

\* init: the switch assigns tg_ a new generator; return true.
initNew ==
  /\ pc = "live" /\ host.pc = "init_new"
  /\ tg_' = "PTR"
  /\ gen' = newToneGen(host.arg)
  /\ nLive' = nLive + 1
  /\ played' = << >>
  /\ last' = Op("init", "true", last.prims \cup {"new"}, host.arg, TRUE, 0, {})
  /\ host' = [host EXCEPT !.pc = "idle"]
  /\ UNCHANGED <<audio_, streamParameters_, playing_, sr_, fs_, ub, pc>>

\* start, up to audio_.startStream(): from its return on the callback can run.
startCall(backendOk) ==
  LET s == startStream(audio_, backendOk) IN
  /\ pc = "live" /\ host.pc = "idle"
  /\ IF playing_
       THEN /\ UNCHANGED <<audio_, host>>
            /\ last' = Op("start", "false", {}, 0, backendOk, 0, {})
       ELSE /\ audio_' = s.a
            /\ IF s.throws
                 THEN /\ UNCHANGED host
                      /\ last' = Op("start", "false", {"startStream"}, 0,
                                    backendOk, 0, {})
                 ELSE /\ host' = [host EXCEPT !.pc = "start_flag"]
                      /\ UNCHANGED last
  /\ UNCHANGED <<streamParameters_, playing_, sr_, fs_, tg_, gen, nLive,
                 played, ub, pc>>

\* start: playing_ = true; return true.
startFlag ==
  /\ pc = "live" /\ host.pc = "start_flag"
  /\ playing_' = TRUE
  /\ last' = Op("start", "true", {"startStream"}, 0, TRUE, 0, {})
  /\ host' = [host EXCEPT !.pc = "idle"]
  /\ UNCHANGED <<audio_, streamParameters_, sr_, fs_, tg_, gen, nLive, played,
                 ub, pc>>

\* stop, up to audio_.stopStream().
stopCall(outcome) ==
  LET s == stopStream(audio_, outcome) IN
  /\ pc = "live" /\ host.pc = "idle"
  /\ IF ~playing_
       THEN /\ UNCHANGED <<audio_, host>>
            /\ last' = Op("stop", "false", {}, 0, outcome = "ok", 0, {})
       ELSE /\ audio_' = s.a
            /\ IF s.throws
                 THEN /\ UNCHANGED host
                      /\ last' = Op("stop", "false", {"stopStream"}, 0,
                                    outcome = "ok", 0, {})
                 ELSE /\ host' = [host EXCEPT !.pc = "stop_flag"]
                      /\ UNCHANGED last
  /\ UNCHANGED <<streamParameters_, playing_, sr_, fs_, tg_, gen, nLive,
                 played, ub, pc>>

\* stop: playing_ = false.
stopFlag ==
  /\ pc = "live" /\ host.pc = "stop_flag"
  /\ playing_' = FALSE
  /\ host' = [host EXCEPT !.pc = "stop_close"]
  /\ UNCHANGED <<audio_, streamParameters_, sr_, fs_, tg_, gen, nLive, played,
                 ub, pc, last>>

\* stop: if (audio_.isStreamOpen()) audio_.closeStream(); return true.
stopClose ==
  /\ pc = "live" /\ host.pc = "stop_close"
  /\ audio_' = (IF isStreamOpen(audio_) THEN closeStream(audio_) ELSE audio_)
  /\ last' = Op("stop", "true",
                {"stopStream", "isStreamOpen"}
                  \cup (IF isStreamOpen(audio_) THEN {"closeStream"} ELSE {}),
                0, TRUE, 0, {})
  /\ host' = [host EXCEPT !.pc = "idle"]
  /\ UNCHANGED <<streamParameters_, playing_, sr_, fs_, tg_, gen, nLive,
                 played, ub, pc>>

InitThreads ==
  /\ SimplePlayback
  /\ host = Host("idle", 0, "none", FALSE, FALSE, FALSE, 0)

NextThreads ==
  \/ \E sr \in SampleRates, nch \in ChannelCounts, t \in ToneGenArgs,
        devOk \in BOOLEAN, period \in PeriodSizes :
       initOpen(sr, nch, t, devOk, period)
  \/ initDelete
  \/ initNew
  \/ \E ok \in BOOLEAN : startCall(ok)
  \/ startFlag
  \/ \E outcome \in StopOutcomes : stopCall(outcome)
  \/ stopFlag
  \/ stopClose
  \/ AudioThread /\ UNCHANGED host

SpecThreads == InitThreads /\ [][NextThreads]_vars

(* ------------------------- a long-running stream ----------------------- *)
\* Values of sampleCount_ two calls before the carry into the upper 16 bits
\* and two calls before the wrap of the unsigned int.
LateCounts ==
  {[hi |-> 0, lo |-> HalfRange - 2], [hi |-> HalfRange - 1, lo |-> HalfRange - 2]}

\* The generator behind tg_ of a running stream: one that init just made, or
\* a SineGen / SquareGen that has been played up to a late index, sample_
\* holding the sample it returned last. A WhiteNoiseGen's sampleCount_ is the
\* one its constructor set, however long it has played.
LateGens ==
  {SineGen, SquareGen, WhiteNoiseGen}
    \cup {[SineGen EXCEPT !.sampleCount_ = c, !.sample_ = f] :
            c \in LateCounts, f \in FarSines}
    \cup {[SquareGen EXCEPT !.sampleCount_ = c,
                            !.sample_ = UnitAmplitude * sgn(f)] :
            c \in LateCounts, f \in FarSines}

\* The driver after init(sr, 1, toneGen) and start() on one output channel,
\* its generator anywhere in LateGens; played collects what the callbacks
\* write from here on.
InitSamples ==
  /\ audio_ = startStream(openStream(RtAudio, 1, TRUE).a, TRUE).a
  /\ streamParameters_ =
       [deviceId |-> getDefaultOutputDevice, nChannels |-> 1, firstChannel |-> 0]
  /\ playing_ = TRUE
  /\ sr_ \in SampleRates
  /\ fs_ \in PeriodSizes
  /\ tg_ = "PTR"
  /\ gen \in LateGens
  /\ nLive = 1
  /\ played = << >>
  /\ ub = FALSE
  /\ pc = "live"
  /\ last = Op("start", "true", {"startStream"}, 0, TRUE, 0, {})
  /\ host = AnyHost

NextSamples == AudioThread /\ UNCHANGED host

SpecSamples == InitSamples /\ [][NextSamples]_vars

(* ------------------------------ states --------------------------------- *)
\* The driver's states, read from the stream and the flag.
Closed == audio_.state = "STREAM_CLOSED"
Open == audio_.state = "STREAM_STOPPED" /\ ~playing_
Streaming == playing_

\* The first n terms of the Sine sequence at amplitude 1.0, from index 0.
SineSequence(n) == [i \in 1 .. n |-> SinMilli(i - 1)]

(* ------------------------------ claims --------------------------------- *)
\* C1: on a one-channel stream playing a Sine generator, every callback with
\* frame count F calls nextSample F times, writes F samples and returns 0;
\* the samples written since the generator was made are the Sine sequence at
\* indices 0 .. n-1 with none skipped or repeated, and the generator's sample
\* index is n, their number.
C1_SineOutputIsContiguous ==
  (pc = "live" /\ gen.live /\ gen.kind = "Sine" /\ audio_.nUserChannels = 1)
    => /\ played = SineSequence(Len(played))
       /\ Val32(gen.sampleCount_) = Len(played)
       /\ last.op = "callback"
            => /\ last.calls = last.arg
               /\ Cardinality(last.written) = last.arg
               /\ last.ret = "0"

\* Two or more callbacks of different sizes have played three Sine samples.
C1_Witness ==
  /\ pc = "live" /\ gen.live /\ gen.kind = "Sine" /\ audio_.nUserChannels = 1
  /\ last.op = "callback" /\ last.arg = 1
  /\ Len(played) = 3

\* C2: start while Streaming returns failure and changes nothing: stream,
\* playing flag, SampleSource and sample index stay as they were and the
\* backend's startStream is not called.
C2_StartWhileStreamingIsNoOp ==
  [][(last'.op = "start" /\ Streaming)
       => /\ last'.ret = "false"
          /\ UNCHANGED driver
          /\ "startStream" \notin last'.prims]_vars

\* A start was refused on a running stream that had already played samples.
C2_Witness ==
  /\ last.op = "start" /\ last.ret = "false"
  /\ playing_ /\ audio_.state = "STREAM_RUNNING"
  /\ Len(played) > 0

\* C3: start on a stream that is not Open returns failure and leaves stream
\* state and playing flag as they were (on a closed stream: not Streaming);
\* the driver becomes Streaming only by a successful start on an Open stream.
C3_StartNeedsOpen ==
  /\ [][(last'.op = "start" /\ ~Open)
          => /\ last'.ret = "false"
             /\ UNCHANGED <<audio_, playing_>>
             /\ (Closed => ~playing_')]_vars
  /\ [][(~playing_ /\ playing_')
          => /\ last'.op = "start" /\ last'.ret = "true"
             /\ Open
             /\ audio_'.state = "STREAM_RUNNING"]_vars

\* A start was refused on a stream closed by a stop, its generator still held.
C3_Witness ==
  /\ last.op = "start" /\ last.ret = "false"
  /\ Closed /\ ~playing_ /\ tg_ = "PTR"

\* C4: stop while not Streaming returns failure and changes nothing: an Open
\* stream stays Open, no backend primitive is called, the SampleSource stays.
C4_StopWhenNotStreamingIsNoOp ==
  [][(last'.op = "stop" /\ ~Streaming)
       => /\ last'.ret = "false"
          /\ UNCHANGED driver
          /\ last'.prims = {}]_vars

\* A stop was refused on an Open stream, which is still Open with its generator.
C4_Witness ==
  /\ last.op = "stop" /\ last.ret = "false"
  /\ Open /\ tg_ = "PTR" /\ gen.live

\* C5: a stop that succeeds was called in Streaming and ends not Streaming
\* with the stream closed; a callback runs only on a running stream of a
\* Streaming driver, a closed stream is opened only by a successful init, and
\* a stream starts running only by a successful start.
C5_StopClosesAndSilences ==
  /\ [][(last'.op = "stop" /\ last'.ret = "true")
          => (Streaming /\ ~playing_' /\ audio_'.state = "STREAM_CLOSED")]_vars
  /\ [][(last'.op = "callback")
          => (playing_ /\ audio_.state = "STREAM_RUNNING")]_vars
  /\ [][(Closed /\ audio_'.state # "STREAM_CLOSED")
          => (last'.op = "init" /\ last'.ret = "true"
              /\ audio_'.state = "STREAM_STOPPED")]_vars
  /\ [][(audio_.state # "STREAM_RUNNING" /\ audio_'.state = "STREAM_RUNNING")
          => (last'.op = "start" /\ last'.ret = "true")]_vars

\* A stop succeeded after callbacks had played samples.
C5_Witness ==
  /\ last.op = "stop" /\ last.ret = "true"
  /\ Len(played) > 0 /\ pc = "live"

\* C6: whenever init returns failure, from Closed, Open or Streaming, the
\* driver is Closed afterwards.
C6_FailedInitLeavesClosed ==
  (last.op = "init" /\ last.ret = "false") => (Closed /\ ~playing_)

\* C7: init on a stream that is Open or Streaming, with a working device,
\* succeeds and ends Open, not Streaming, with a new generator at index 0.
C7_ReinitReopens ==
  [][(last'.op = "init" /\ ~Closed /\ last'.dev)
       => /\ last'.ret = "true"
          /\ audio_'.state = "STREAM_STOPPED" /\ ~playing_'
          /\ tg_' = "PTR" /\ gen'.live /\ gen'.sampleCount_ = Zero32]_vars

\* C8: while the driver lives, it holds at most one open stream, and when the
\* stream is open (Open or Streaming) tg_ points to a live generator.
C8_OneStreamLiveSource ==
  pc = "live"
    => /\ audio_.nOpen <= 1
       /\ ~Closed => (tg_ = "PTR" /\ gen.live /\ nLive = 1)

\* An init failed on a running stream, which still has its generator.
C8_Witness ==
  /\ pc = "live" /\ last.op = "init" /\ last.ret = "false"
  /\ audio_.state = "STREAM_RUNNING" /\ gen.live

\* C9: destruction ends with the stream closed and the generator released
\* exactly once, and the generator is never released while the stream can
\* still invoke the callback.
C9_DestructionIsSafe ==
  /\ pc = "dead" => (Closed /\ nLive = 0 /\ ~gen.live)
  /\ ~(tg_ = "PTR" /\ ~gen.live /\ audio_.state = "STREAM_RUNNING")

\* Slot of channel ch of frame f in an interleaved buffer of nch channels.
Slot(f, ch, nch) == f * nch + ch

VariantOf(generatorKind) ==
  CASE generatorKind = 1 -> "Square"
    [] generatorKind = 2 -> "WhiteNoise"
    [] OTHER -> "Sine"

\* C11: a successful init leaves a newly constructed generator of the variant
\* its selector names: Square for 1, WhiteNoise for 2, Sine for 0 and for
\* any other value (99).
C11_SelectorPicksVariant ==
  (last.op = "init" /\ last.ret = "true")
    => /\ tg_ = "PTR" /\ gen.live
       /\ gen.kind = VariantOf(last.arg)
       /\ gen.sampleCount_ = Zero32 /\ gen.sample_ = InitialSample
       /\ gen.amplitude_ =
            (IF gen.kind = "WhiteNoise" THEN NoiseAmplitude ELSE UnitAmplitude)

\* An init with the unrecognised selector 99 succeeded and made a Sine.
C11_Witness ==
  /\ last.op = "init" /\ last.ret = "true" /\ last.arg = 99
  /\ gen.live /\ gen.kind = "Sine"

\* C12: the driver owns at most one live generator: there are never two, an
\* init that replaces a generator has deleted the old one, so one is live
\* after it, and none is live once the driver is destroyed; none is deleted
\* twice (the count never goes below zero).
C12_OneLiveSource ==
  /\ nLive \in {0, 1}
  /\ gen.live <=> nLive = 1
  /\ pc = "live" => nLive = (IF tg_ = "PTR" THEN 1 ELSE 0)
  /\ pc # "live" => nLive = 0
  /\ (last.op = "init" /\ last.ret = "true") => nLive = 1

\* An init replaced an existing generator: it deleted one and made one.
C12_Witness ==
  /\ last.op = "init" /\ last.ret = "true"
  /\ {"delete", "new"} \subseteq last.prims
  /\ nLive = 1

\* C13: main returns a non-zero value when argument parsing fails or init
\* fails, and 0 on a normal stop (init and start succeeded, the user's signal
\* was read and stop was called).
C13_ExitCodes ==
  host.pc = "exited"
    => /\ host.parse # "ok" => host.exit # 0
       /\ (host.parse = "ok" /\ ~host.initOk) => host.exit # 0
       /\ (host.initOk /\ host.startOk /\ host.stopCalled) => host.exit = 0

\* main returned 0 after playing samples and stopping.
C13_Witness ==
  /\ host.pc = "exited" /\ host.exit = 0
  /\ host.initOk /\ host.startOk /\ host.stopCalled
  /\ Len(played) > 0

\* C14: with callbacks interleaved between the statements of init, start and
\* stop, the stream never runs without a live generator behind tg_ (so no
\* callback reads a null or deleted one), and while the driver is Streaming
\* or its stream runs, the only steps that change the generator are callbacks,
\* which leave tg_ alone and the generator live.
C14_HostLeavesSourceAlone ==
  /\ [](audio_.state = "STREAM_RUNNING" => (tg_ = "PTR" /\ gen.live))
  /\ [](~ub)
  /\ [][((playing_ \/ audio_.state = "STREAM_RUNNING")
           /\ <<tg_, gen>>' # <<tg_, gen>>)
          => (UNCHANGED <<host, tg_>> /\ last'.op = "callback" /\ gen'.live)]_vars

\* An init was refused while callbacks were playing from a running stream.
C14_Witness ==
  /\ host.pc = "idle" /\ last.op = "init" /\ last.ret = "false"
  /\ playing_ /\ audio_.state = "STREAM_RUNNING"
  /\ Len(played) > 0 /\ gen.live

\* d is c advanced by n calls, n below 2^16, as 32-bit unsigned arithmetic
\* on the two halves.
IsSum32(c, n, d) ==
  /\ d.lo = (c.lo + n) % HalfRange
  /\ d.hi = (c.hi + ((c.lo + n) \div HalfRange)) % HalfRange

\* C15 (as stated): for every variant, Sine, Square and WhiteNoise alike, a
\* callback that makes N nextSample calls leaves the running sample index N
\* further, modulo 2^32 (one per call).
C15_EveryVariantCounts ==
  [][last'.op = "callback"
       => IsSum32(gen.sampleCount_, last'.calls, gen'.sampleCount_)]_vars

\* C15 (amended): a Sine or Square generator's running sample index advances
\* by exactly one per nextSample call, modulo 2^32 (N calls of a callback
\* leave it N further, the carry and the wrap to 0 included); a WhiteNoise
\* generator's index is never touched by nextSample.
C15_SineSquareCount ==
  [][(last'.op = "callback" /\ gen.live)
       => IF gen.kind \in {"Sine", "Square"}
            THEN IsSum32(gen.sampleCount_, last'.calls, gen'.sampleCount_)
            ELSE gen'.sampleCount_ = gen.sampleCount_]_vars

\* A Sine generator whose index has wrapped from 2^32 - 1 to 0 inside a
\* callback of two calls.
C15_Witness ==
  /\ last.op = "callback"
  /\ last.calls = 2
  /\ gen.kind = "Sine"
  /\ gen.sampleCount_ = Zero32
  /\ Len(played) > 0

\* C16: a start that the backend rejects on an Open stream returns failure
\* and leaves the driver Open, not playing, with its SampleSource; a stop that
\* the backend rejects while Streaming returns failure and leaves the playing
\* flag true, the stream not closed and the SampleSource kept; the same call
\* made again succeeds once the backend accepts it.
C16_RejectedCallKeepsState ==
  /\ [][(last'.op = "start" /\ Open /\ ~last'.dev)
          => /\ last'.ret = "false"
             /\ Open'
             /\ UNCHANGED <<audio_, playing_, tg_, gen, nLive>>]_vars
  /\ [][(last'.op = "stop" /\ Streaming /\ audio_.state = "STREAM_RUNNING"
           /\ ~last'.dev)
          => /\ last'.ret = "false"
             /\ Streaming'
             /\ audio_'.state # "STREAM_CLOSED"
             /\ UNCHANGED <<tg_, gen, nLive>>]_vars
  /\ [][(last'.op = "start" /\ Open /\ last'.dev)
          => (last'.ret = "true" /\ Streaming')]_vars
  /\ [][(last'.op = "stop" /\ Streaming /\ last'.dev)
          => (last'.ret = "true" /\ ~Streaming')]_vars

\* The backend has rejected a stop of a running stream: the driver is still
\* Streaming and holds its generator.
C16_Witness ==
  /\ last.op = "stop" /\ last.ret = "false" /\ ~last.dev
  /\ last.prims = {"stopStream"}
  /\ Streaming /\ audio_.state = "STREAM_RUNNING"
  /\ tg_ = "PTR" /\ gen.live

\* C17: an init that returns failure leaves every attribute of the driver as
\* it was: the sample rate, the stream parameters (channel count, device),
\* the period size, the stream, the playing flag and the generator with its
\* sample index.
C17_FailedInitChangesNothing ==
  [][(last'.op = "init" /\ last'.ret = "false")
       => UNCHANGED <<sr_, streamParameters_, fs_, audio_, playing_, tg_, gen,
                      nLive>>]_vars
====
